---- MODULE Spec2Model ----
(***************************************************************************)
(* A model of hello.py: hello(), hello_name(name) and the block that runs  *)
(* when the module is executed directly.                                   *)
(*                                                                         *)
(* A Python str is a sequence of one-character strings.  Standard output   *)
(* is the sequence of characters written to it so far.  A Python value is  *)
(* a record [type, val]: None, or a str with its characters.               *)
(*                                                                         *)
(* The module is used in one of two ways, chosen in Init:                  *)
(*   modname = "__main__"  it is run directly: line 18 is true and the     *)
(*                         main thread runs lines 19 and 20;               *)
(*   modname = "hello"     it is imported (as test_hello.py does): line 18 *)
(*                         is false, and nthreads client threads call      *)
(*                         hello() and hello_name(s) as they like.         *)
(*                                                                         *)
(* print(x) is CPython's builtin: it calls sys.stdout.write(str(x)) and    *)
(* then sys.stdout.write("\n"), two separate calls, either of which may    *)
(* raise OSError when the stream is unavailable.  sys.stdout is not        *)
(* synchronised: a write made while another thread is inside print is a    *)
(* data race, and may reach the stream whole, cut short or not at all.     *)
(***************************************************************************)
EXTENDS Integers, Sequences, FiniteSets, TLC

VARIABLES
    modname,     \* __name__ of the module: "__main__" or "hello"
    nthreads,    \* number of threads that call into the module
    thr,         \* per thread: pc, call site, last operation, argument, result, exception
    stdout,      \* the characters written to standard output so far
    ncalls,      \* calls started by clients
    nhello,      \* calls of hello() that returned
    nfault,      \* writes to standard output that raised
    overlapped,  \* a call of hello() began while another thread was inside hello()
    hist         \* one earlier call of hello_name, remembered: its argument, its
                 \* result and the number of calls started when it returned

vars == <<modname, nthreads, thr, stdout, ncalls, nhello, nfault, overlapped, hist>>

(* Bounds *)
MaxLen == 2
MaxCalls == 3
MaxThreads == 2

Threads == 1..MaxThreads

(* Python values *)
None == [type |-> "NoneType", val |-> <<>>]
Str(s) == [type |-> "str", val |-> s]
Unset == [type |-> "unset", val |-> <<>>]

(* The literals of hello.py *)
HelloWorld == <<"H", "e", "l", "l", "o", ",", " ", "W", "o", "r", "l", "d", "!">>
HelloComma == <<"H", "e", "l", "l", "o", ",", " ">>
Bang == <<"!">>
Developer == <<"D", "e", "v", "e", "l", "o", "p", "e", "r">>
Newline == <<"\n">>

(* The literals of test_hello.py *)
Alice == <<"A", "l", "i", "c", "e">>
Empty == <<>>
BobOConnor == <<"B", "o", "b", "-", "O", "'", "C", "o", "n", "n", "o", "r">>
TestNames == {Alice, Empty, BobOConnor}

(* Input strings: every string over Alphabet up to MaxLen characters, the  *)
(* names the tests and the main block use, and greetings fed back in.      *)
Alphabet == {"a", " ", "!"}

RECURSIVE Short(_)
Short(n) ==
    IF n = 0 THEN {<<>>}
    ELSE Short(n - 1) \cup {Append(s, c) : s \in Short(n - 1), c \in Alphabet}

Names ==
    Short(MaxLen) \cup TestNames \cup {Developer}
        \cup {HelloComma \o s \o Bang : s \in Short(MaxLen - 1)}

(* ----------------------------------------------------------------------- *)
(* hello_name, line 15: the f-string "Hello, {name}!" is the concatenation *)
(* of its parts in order, the replacement field {name} being               *)
(* format(name, ""), which for a str is its own characters.                *)

RECURSIVE BuildString(_)
BuildString(parts) ==
    IF parts = <<>> THEN <<>>
    ELSE Head(parts) \o BuildString(Tail(parts))

FormatValue(v) == IF v.type = "str" THEN v.val ELSE <<"N", "o", "n", "e">>

(* Variants of line 15 with a slip in it. *)
RECURSIVE LStrip(_)
LStrip(s) == IF s # <<>> /\ Head(s) = " " THEN LStrip(Tail(s)) ELSE s

RECURSIVE RStrip(_)
RStrip(s) ==
    IF s # <<>> /\ s[Len(s)] = " " THEN RStrip(SubSeq(s, 1, Len(s) - 1)) ELSE s

(* f"Hello,{name}!": the space after the comma left out *)
hello_name_no_space(name) ==
    Str(BuildString(<<SubSeq(HelloComma, 1, 6), FormatValue(name), Bang>>))

(* f"Hello, {name.strip()}!": the name trimmed *)
hello_name_stripped(name) ==
    Str(BuildString(<<HelloComma, LStrip(RStrip(FormatValue(name))), Bang>>))

(* the greeting numbered by a module-level count of the greetings printed *)
hello_name_numbered(name) ==
    Str(BuildString(<<HelloComma, FormatValue(name), Bang,
                      [i \in 1..nhello |-> "!"]>>))

hello_name(name) == Str(BuildString(<<HelloComma, FormatValue(name), Bang>>))

(* ----------------------------------------------------------------------- *)
(* print and standard output                                               *)

(* str(x), what print writes for x *)
PyStr(v) == IF v.type = "str" THEN v.val ELSE <<"N", "o", "n", "e">>

InPrint(u) == thr[u].pc \in {"L3_text", "L3_end", "L20_text", "L20_end"}

Racing(t) == \E u \in (1..nthreads) \ {t} : InPrint(u)

(* What a racing write may leave on the stream instead of the chunk: none  *)
(* of it, or its first half.                                               *)
Torn(chunk) == {SubSeq(chunk, 1, k) : k \in {0, Len(chunk) \div 2}} \ {chunk}

(* sys.stdout.write(chunk) by thread t: the stream after it, and whether   *)
(* the call returned (ok) or raised OSError.                               *)
WriteOutcomes(t, chunk) ==
    {[ok |-> TRUE, out |-> stdout \o chunk], [ok |-> FALSE, out |-> stdout]}
        \cup (IF Racing(t)
              THEN {[ok |-> TRUE, out |-> stdout \o c] : c \in Torn(chunk)}
              ELSE {})

(* ----------------------------------------------------------------------- *)
(* Calls, returns and exceptions                                           *)

Call(t, f, a, from) ==
    [thr EXCEPT ![t] = [pc |-> IF f = "hello" THEN "L3_text" ELSE "L15",
                        site |-> from, op |-> f, arg |-> a,
                        ret |-> Unset, exc |-> "none"]]

(* The callee returns v to the place that called it. *)
Return(t, v) ==
    [thr EXCEPT ![t].ret = v,
                ![t].pc = CASE thr[t].site = "L19" -> "L20_call"
                            [] thr[t].site = "L20" -> "L20_text"
                            [] OTHER -> "idle"]

(* An exception leaves the callee.  Lines 19 and 20 have no handler: the   *)
(* run ends with a traceback.  A client gets the exception.                *)
Raise(t, e) ==
    [thr EXCEPT ![t].exc = e,
                ![t].pc = IF thr[t].site \in {"L19", "L20", "main"}
                          THEN "exit_fail" ELSE "idle"]

(* ----------------------------------------------------------------------- *)
(* hello, lines 1-3                                                        *)

(* Variant: hello wraps print in try/except and passes. *)
hello_except_swallowed(t, e) == Return(t, None)

(* hello has no try: an exception raised by print leaves hello unchanged.  *)
hello_except(t, e) == Raise(t, e)

(* print("Hello, World!"), the write of the text *)
hello_L3_text(t) ==
    /\ t \in 1..nthreads
    /\ thr[t].pc = "L3_text"
    /\ \E w \in WriteOutcomes(t, PyStr(Str(HelloWorld))) :
        /\ stdout' = w.out
        /\ nfault' = IF w.ok THEN nfault ELSE nfault + 1
        /\ thr' = IF w.ok THEN [thr EXCEPT ![t].pc = "L3_end"]
                  ELSE hello_except(t, "OSError")
    /\ UNCHANGED <<modname, nthreads, ncalls, nhello, overlapped, hist>>

(* Variant: print("Hello, World!", end=""), no line terminator written. *)
hello_L3_end_no_newline(t) ==
    /\ t \in 1..nthreads
    /\ thr[t].pc = "L3_end"
    /\ thr' = Return(t, None)
    /\ nhello' = nhello + 1
    /\ UNCHANGED <<modname, nthreads, stdout, ncalls, nfault, overlapped, hist>>

(* print("Hello, World!"), the write of the line terminator; then hello    *)
(* falls off its end and returns None.                                     *)
hello_L3_end(t) ==
    /\ t \in 1..nthreads
    /\ thr[t].pc = "L3_end"
    /\ \E w \in WriteOutcomes(t, Newline) :
        /\ stdout' = w.out
        /\ nfault' = IF w.ok THEN nfault ELSE nfault + 1
        /\ thr' = IF w.ok THEN Return(t, None) ELSE hello_except(t, "OSError")
        /\ nhello' = IF w.ok THEN nhello + 1 ELSE nhello
    /\ UNCHANGED <<modname, nthreads, ncalls, overlapped, hist>>

(* ----------------------------------------------------------------------- *)
(* hello_name, lines 6-15                                                  *)

(* Variant: hello_name prints the greeting as well as returning it. *)
hello_name_L15_printing(t) ==
    /\ t \in 1..nthreads
    /\ thr[t].pc = "L15"
    /\ thr' = Return(t, hello_name(thr[t].arg))
    /\ stdout' = stdout \o hello_name(thr[t].arg).val \o Newline
    /\ hist' = hist
    /\ UNCHANGED <<modname, nthreads, ncalls, nhello, nfault, overlapped>>

(* Variant: hello_name rejects the empty name with ValueError. *)
hello_name_L15_rejecting_empty(t) ==
    /\ t \in 1..nthreads
    /\ thr[t].pc = "L15"
    /\ thr' = IF thr[t].arg.val = <<>> THEN Raise(t, "ValueError")
              ELSE Return(t, hello_name(thr[t].arg))
    /\ hist' = hist
    /\ UNCHANGED <<modname, nthreads, stdout, ncalls, nhello, nfault, overlapped>>

(* Variant: the name is kept in a module-level global that every caller    *)
(* sets, and line 15 reads the global: it holds some caller's argument.    *)
hello_name_L15_shared(t) ==
    /\ t \in 1..nthreads
    /\ thr[t].pc = "L15"
    /\ \E u \in 1..nthreads :
        /\ thr[u].op = "hello_name"
        /\ thr' = Return(t, hello_name(thr[u].arg))
    /\ hist' = hist
    /\ UNCHANGED <<modname, nthreads, stdout, ncalls, nhello, nfault, overlapped>>

hello_name_L15(t) ==
    /\ t \in 1..nthreads
    /\ thr[t].pc = "L15"
    /\ thr' = Return(t, hello_name(thr[t].arg))
    /\ \E keep \in BOOLEAN :
        hist' = IF keep /\ ~hist.set
                THEN [set |-> TRUE, at |-> ncalls, arg |-> thr[t].arg,
                      ret |-> hello_name(thr[t].arg)]
                ELSE hist
    /\ UNCHANGED <<modname, nthreads, stdout, ncalls, nhello, nfault, overlapped>>

(* ----------------------------------------------------------------------- *)
(* The module body, lines 18-20                                            *)

(* if __name__ == "__main__": *)
main_L18 ==
    /\ thr[1].pc = "L18"
    /\ thr' = [thr EXCEPT ![1].pc = IF modname = "__main__" THEN "L19" ELSE "idle",
                          ![1].site = IF modname = "__main__" THEN "main" ELSE "client"]
    /\ UNCHANGED <<modname, nthreads, stdout, ncalls, nhello, nfault, overlapped, hist>>

(* Variant: line 19 reads `hello` without the parentheses: no call is made. *)
main_L19_uncalled ==
    /\ thr[1].pc = "L19"
    /\ thr' = [thr EXCEPT ![1].pc = "L20_call"]
    /\ UNCHANGED <<modname, nthreads, stdout, ncalls, nhello, nfault, overlapped, hist>>

(* hello() *)
main_L19 ==
    /\ thr[1].pc = "L19"
    /\ thr' = Call(1, "hello", None, "L19")
    /\ UNCHANGED <<modname, nthreads, stdout, ncalls, nhello, nfault, overlapped, hist>>

(* hello_name("Developer"), the argument of print *)
main_L20_call ==
    /\ thr[1].pc = "L20_call"
    /\ thr' = Call(1, "hello_name", Str(Developer), "L20")
    /\ UNCHANGED <<modname, nthreads, stdout, ncalls, nhello, nfault, overlapped, hist>>

(* print(...), the write of the text *)
main_L20_text ==
    /\ thr[1].pc = "L20_text"
    /\ \E w \in WriteOutcomes(1, PyStr(thr[1].ret)) :
        /\ stdout' = w.out
        /\ nfault' = IF w.ok THEN nfault ELSE nfault + 1
        /\ thr' = IF w.ok THEN [thr EXCEPT ![1].pc = "L20_end", ![1].op = "print"]
                  ELSE [Raise(1, "OSError") EXCEPT ![1].op = "print"]
    /\ UNCHANGED <<modname, nthreads, ncalls, nhello, overlapped, hist>>

(* print(...), the write of the line terminator; the run then ends *)
main_L20_end ==
    /\ thr[1].pc = "L20_end"
    /\ \E w \in WriteOutcomes(1, Newline) :
        /\ stdout' = w.out
        /\ nfault' = IF w.ok THEN nfault ELSE nfault + 1
        /\ thr' = IF w.ok THEN [thr EXCEPT ![1].pc = "exit_ok"]
                  ELSE Raise(1, "OSError")
    /\ UNCHANGED <<modname, nthreads, ncalls, nhello, overlapped, hist>>

(* ----------------------------------------------------------------------- *)
(* Clients of the imported module                                          *)

Imported == modname = "hello" /\ thr[1].pc # "L18"

(* The strings a client passes: any input when it is the only caller, the  *)
(* tests' names when several threads call.                                 *)
ArgChoices == IF nthreads = 1 THEN Names ELSE TestNames

client_hello(t) ==
    /\ Imported
    /\ t \in 1..nthreads
    /\ thr[t].pc = "idle"
    /\ ncalls < MaxCalls
    /\ thr' = Call(t, "hello", None, "client")
    /\ ncalls' = ncalls + 1
    /\ overlapped' = (overlapped \/ Racing(t))
    /\ UNCHANGED <<modname, nthreads, stdout, nhello, nfault, hist>>

client_hello_name(t) ==
    /\ Imported
    /\ t \in 1..nthreads
    /\ thr[t].pc = "idle"
    /\ ncalls < MaxCalls
    /\ \E s \in ArgChoices : thr' = Call(t, "hello_name", Str(s), "client")
    /\ ncalls' = ncalls + 1
    /\ UNCHANGED <<modname, nthreads, stdout, nhello, nfault, overlapped, hist>>

(* ----------------------------------------------------------------------- *)

Init ==
    /\ modname \in {"__main__", "hello"}
    /\ nthreads \in 1..MaxThreads
    /\ (modname = "__main__" => nthreads = 1)
    /\ thr = [t \in Threads |->
                [pc |-> IF t = 1 THEN "L18" ELSE "idle", site |-> "client",
                 op |-> "none", arg |-> Unset, ret |-> Unset, exc |-> "none"]]
    /\ stdout = <<>>
    /\ ncalls = 0
    /\ nhello = 0
    /\ nfault = 0
    /\ overlapped = FALSE
    /\ hist = [set |-> FALSE, at |-> 0, arg |-> Unset, ret |-> Unset]

Next ==
    \/ main_L18
    \/ main_L19
    \/ main_L20_call
    \/ main_L20_text
    \/ main_L20_end
    \/ \E t \in Threads : hello_L3_text(t)
    \/ \E t \in Threads : hello_L3_end(t)
    \/ \E t \in Threads : hello_name_L15(t)
    \/ \E t \in Threads : client_hello(t)
    \/ \E t \in Threads : client_hello_name(t)

Spec == Init /\ [][Next]_vars

(* ======================================================================= *)
(* Properties                                                              *)

RECURSIVE Repeat(_, _)
Repeat(s, n) == IF n = 0 THEN <<>> ELSE s \o Repeat(s, n - 1)

IsPrefix(p, s) == Len(p) <= Len(s) /\ SubSeq(s, 1, Len(p)) = p

Contains(s, sub) ==
    \E i \in 0..(Len(s) - Len(sub)) : SubSeq(s, i + 1, i + Len(sub)) = sub

(* Thread t holds the result of a call of hello_name that has returned. *)
HasResult(t) ==
    /\ t \in 1..nthreads
    /\ thr[t].op = "hello_name"
    /\ thr[t].ret.type # "unset"

(* The module is imported and has a single caller. *)
Sequential == modname = "hello" /\ nthreads = 1

(* Every client call has finished. *)
AllIdle == modname = "hello" /\ \A t \in 1..nthreads : thr[t].pc = "idle"

WorldLine ==
    <<"H", "e", "l", "l", "o", ",", " ", "W", "o", "r", "l", "d", "!", "\n">>

DeveloperGreeting ==
    <<"H", "e", "l", "l", "o", ",", " ", "D", "e", "v", "e", "l", "o", "p", "e", "r", "!">>

Transcript ==
    <<"H", "e", "l", "l", "o", ",", " ", "W", "o", "r", "l", "d", "!", "\n",
      "H", "e", "l", "l", "o", ",", " ", "D", "e", "v", "e", "l", "o", "p", "e", "r", "!", "\n">>

(* The greeting for s, spelled out. *)
Greeting(s) == <<"H", "e", "l", "l", "o", ",", " ">> \o s \o <<"!">>

(* ----------------------------------------------------------------------- *)
(* C1: every call hello_name(s) that has returned, whatever s holds,       *)
(* returned a str that is "Hello, " then s character for character then    *)
(* one "!", of length len(s) + 8.                                          *)
C1_ExactGreeting ==
    \A t \in Threads :
        HasResult(t) =>
            LET s == thr[t].arg.val
                r == thr[t].ret.val
            IN  /\ thr[t].ret.type = "str"
                /\ Len(r) = Len(s) + 8
                /\ SubSeq(r, 1, 7) = <<"H", "e", "l", "l", "o", ",", " ">>
                /\ \A i \in 1..Len(s) : r[7 + i] = s[i]
                /\ r[Len(s) + 8] = "!"

(* A call with quotes and hyphens in the name has returned, after one      *)
(* whose name is made of the template's own "!" and a space.               *)
C1_Witness ==
    /\ HasResult(1)
    /\ thr[1].arg.val = BobOConnor
    /\ thr[1].ret.val =
         <<"H", "e", "l", "l", "o", ",", " ", "B", "o", "b", "-", "O", "'",
           "C", "o", "n", "n", "o", "r", "!">>
    /\ hist.set
    /\ hist.arg.val = <<"!", " ">>
    /\ hist.ret.val = <<"H", "e", "l", "l", "o", ",", " ", "!", " ", "!">>

(* ----------------------------------------------------------------------- *)
(* C2: in a direct run standard output is at every moment a prefix of the  *)
(* two-line transcript, and when the run ends normally it is exactly the   *)
(* transcript: "Hello, World!" first, "Hello, Developer!" second, each     *)
(* with its line terminator, and nothing else.                             *)
C2_DirectRunTranscript ==
    modname = "__main__" =>
        /\ IsPrefix(stdout, Transcript)
        /\ (thr[1].pc = "exit_ok" => stdout = Transcript)
        /\ (thr[1].pc \in {"L18", "L19"} => stdout = <<>>)

C2_Witness ==
    /\ modname = "__main__"
    /\ thr[1].pc = "exit_ok"
    /\ Len(stdout) = 32
    /\ nfault = 0

(* ----------------------------------------------------------------------- *)
(* C3: with a single caller and no failed write, standard output after k   *)
(* returned calls of hello() is k lines "Hello, World!", a call in         *)
(* progress having added the text of one more; hello() returns None.       *)
C3_OneLinePerCall ==
    (Sequential /\ nfault = 0) =>
        /\ (thr[1].pc \in {"idle", "L15", "L3_text"}
                => stdout = Repeat(WorldLine, nhello))
        /\ (thr[1].pc = "L3_end"
                => stdout = Repeat(WorldLine, nhello) \o SubSeq(WorldLine, 1, 13))
        /\ ((thr[1].pc = "idle" /\ thr[1].op = "hello") => thr[1].ret = None)

C3_Witness ==
    /\ Sequential
    /\ nfault = 0
    /\ thr[1].pc = "idle"
    /\ thr[1].op = "hello"
    /\ thr[1].ret = None
    /\ nhello = 2
    /\ stdout = WorldLine \o WorldLine

(* ----------------------------------------------------------------------- *)
(* C4: the step in which hello_name runs changes nothing but the calling   *)
(* thread's own result and position: standard output, the counters, the    *)
(* module and every other thread are as before; and standard output only   *)
(* ever changes in a step of print, at line 3 or at line 20.               *)
C4_HelloNamePure ==
    [][/\ \A t \in Threads :
            (thr[t].pc = "L15" /\ thr'[t] # thr[t]) =>
                /\ stdout' = stdout
                /\ nfault' = nfault
                /\ nhello' = nhello
                /\ ncalls' = ncalls
                /\ modname' = modname
                /\ nthreads' = nthreads
                /\ thr'[t].arg = thr[t].arg
                /\ thr'[t].exc = "none"
                /\ \A u \in Threads \ {t} : thr'[u] = thr[u]
       /\ (stdout' # stdout =>
            \E t \in Threads : thr[t].pc \in {"L3_text", "L3_end", "L20_text", "L20_end"}
                                /\ thr'[t] # thr[t])
      ]_vars

(* hello_name has returned to a single caller after two calls of hello():  *)
(* the two lines are all that standard output holds.                       *)
C4_Witness ==
    /\ Sequential
    /\ HasResult(1)
    /\ thr[1].pc = "idle"
    /\ ncalls = 3
    /\ nhello = 2
    /\ stdout = WorldLine \o WorldLine

(* ----------------------------------------------------------------------- *)
(* C5: a call hello_name(s) returns what an earlier call hello_name(s)     *)
(* returned, whatever was called in between, and two threads that called   *)
(* it with the same s hold the same result.                                *)
C5_SameArgSameResult ==
    \A t \in Threads :
        HasResult(t) =>
            /\ ((hist.set /\ hist.arg = thr[t].arg) => thr[t].ret = hist.ret)
            /\ \A u \in Threads :
                (HasResult(u) /\ thr[u].arg = thr[t].arg) => thr[u].ret = thr[t].ret

(* The third call repeats the first call's argument, with a call of        *)
(* hello() between them.                                                   *)
C5_Witness ==
    /\ Sequential
    /\ HasResult(1)
    /\ thr[1].pc = "idle"
    /\ hist.set
    /\ hist.at = 1
    /\ ncalls = 3
    /\ nhello = 1
    /\ hist.arg = thr[1].arg
    /\ thr[1].arg.val = <<"a", " ">>

(* ----------------------------------------------------------------------- *)
(* C6: hello_name never raises and never fails to return: a call that has  *)
(* begun can take its step, a call that has ended holds a str and no       *)
(* exception, and the empty name gives exactly "Hello, !".                 *)
C6_Total ==
    \A t \in Threads :
        (t \in 1..nthreads /\ thr[t].op = "hello_name") =>
            /\ thr[t].exc = "none"
            /\ thr[t].pc \in {"L15", "idle", "L20_text"}
            /\ (thr[t].pc = "L15" => ENABLED hello_name_L15(t))
            /\ (thr[t].pc # "L15" => thr[t].ret.type = "str")
            /\ ((thr[t].pc # "L15" /\ thr[t].arg.val = <<>>)
                    => thr[t].ret.val = <<"H", "e", "l", "l", "o", ",", " ", "!">>)

C6_Witness ==
    /\ HasResult(1)
    /\ thr[1].arg = Str(<<>>)
    /\ thr[1].exc = "none"
    /\ thr[1].ret = Str(<<"H", "e", "l", "l", "o", ",", " ", "!">>)

(* ----------------------------------------------------------------------- *)
(* C7, as claimed: every call of hello_name returned the greeting for its  *)
(* own argument, and once every call has finished without a failed write   *)
(* standard output is exactly one unbroken line "Hello, World!" per        *)
(* returned call of hello(), however the callers' steps interleaved.       *)
C7_AsClaimed ==
    /\ \A t \in Threads : HasResult(t) => thr[t].ret = Str(Greeting(thr[t].arg.val))
    /\ ((AllIdle /\ nfault = 0) => stdout = Repeat(WorldLine, nhello))

(* C7, amended: every call of hello_name returned the greeting for its own *)
(* argument under every interleaving, and once every call has finished     *)
(* without a failed write standard output is one unbroken line per         *)
(* returned call of hello() provided no call of hello() began while        *)
(* another thread was inside hello().                                      *)
C7_Amended ==
    /\ \A t \in Threads : HasResult(t) => thr[t].ret = Str(Greeting(thr[t].arg.val))
    /\ ((AllIdle /\ nfault = 0 /\ ~overlapped) => stdout = Repeat(WorldLine, nhello))

(* Two threads have each called hello(), one after the other, and a call   *)
(* of hello_name was made as well.                                         *)
C7_Witness ==
    /\ nthreads = 2
    /\ AllIdle
    /\ ~overlapped
    /\ nfault = 0
    /\ thr[1].op = "hello"
    /\ thr[2].op = "hello"
    /\ hist.set
    /\ nhello = 2
    /\ stdout = WorldLine \o WorldLine

(* ----------------------------------------------------------------------- *)
(* C8: a write that raises inside hello() ends the call at once with that  *)
(* OSError at the caller, nothing more written and no value returned; a    *)
(* direct run that has failed takes no further step; in a direct run whose *)
(* call of hello() failed "Hello, Developer!" is not on standard output,   *)
(* and whenever it is, the line "Hello, World!" comes first.               *)
C8_FaultPropagates ==
    /\ [](modname = "__main__" =>
            /\ ((thr[1].op = "hello" /\ thr[1].exc # "none")
                    => (thr[1].pc = "exit_fail" /\ ~Contains(stdout, DeveloperGreeting)))
            /\ (nfault > 0 => thr[1].pc = "exit_fail")
            /\ (Contains(stdout, DeveloperGreeting) => IsPrefix(WorldLine, stdout)))
    /\ [][/\ \A t \in Threads :
                (thr[t].pc \in {"L3_text", "L3_end"} /\ thr'[t] # thr[t]
                        /\ nfault' > nfault) =>
                    /\ thr'[t].exc = "OSError"
                    /\ thr'[t].ret = Unset
                    /\ thr'[t].pc = (IF thr[t].site = "L19" THEN "exit_fail" ELSE "idle")
                    /\ stdout' = stdout
                    /\ nhello' = nhello
          /\ ~(modname = "__main__" /\ thr[1].pc = "exit_fail")
         ]_vars

(* The direct run's first write failed: the run has ended in failure with  *)
(* nothing written.                                                        *)
C8_Witness ==
    /\ modname = "__main__"
    /\ thr[1].pc = "exit_fail"
    /\ thr[1].op = "hello"
    /\ thr[1].exc = "OSError"
    /\ nfault = 1
    /\ stdout = <<>>

(* ----------------------------------------------------------------------- *)
(* C9: dropping the first 7 characters and the last one from a result of   *)
(* hello_name gives back its argument, and two calls (an earlier one and   *)
(* the current one, or those of two threads) with equal results had equal  *)
(* arguments.                                                              *)
C9_Injective ==
    \A t \in Threads :
        HasResult(t) =>
            /\ SubSeq(thr[t].ret.val, 8, Len(thr[t].ret.val) - 1) = thr[t].arg.val
            /\ ((hist.set /\ hist.ret = thr[t].ret) => hist.arg = thr[t].arg)
            /\ \A u \in Threads :
                (HasResult(u) /\ thr[u].ret = thr[t].ret) => thr[u].arg = thr[t].arg

(* hello_name("") was called and then hello_name of its result, a name     *)
(* that itself starts with "Hello, " and ends with "!".                    *)
C9_Witness ==
    /\ HasResult(1)
    /\ hist.set
    /\ hist.arg.val = <<>>
    /\ thr[1].arg.val = hist.ret.val
    /\ thr[1].ret.val =
         <<"H", "e", "l", "l", "o", ",", " ", "H", "e", "l", "l", "o", ",", " ", "!", "!">>

====
